---- MODULE Spec2Model ----
(***************************************************************************)
(* Model of the CCA Matcher backend (src/app.py): the event ingestion      *)
(* handler api_events, the aggregation handler api_stats, the clear-all    *)
(* handler api_clear_stats, and the store layer they share (insert_event,  *)
(* fetch_all_events, clear_all_events) on both backends.                   *)
(*                                                                         *)
(* Python values are tagged records; a Python str is a sequence of         *)
(* one-character strings, so that strip(), lower() and the ordering of     *)
(* keys are computed character by character, as the interpreter does.      *)
(***************************************************************************)
EXTENDS Integers, Sequences, FiniteSets, Bags, TLC

VARIABLES
    backend,      \* USE_POSTGRES, fixed at start-up: "postgres" or "sqlite"
    serial,       \* TRUE: requests are served one at a time; FALSE: they overlap
    tableExists,  \* the events table has been created by init_db
    events,       \* the committed rows of the events table: a bag of rows
    pc,           \* position of the api_events call in flight
    row,          \* the row that call has built
    total,        \* the SELECT COUNT(*) result that call holds
    before,       \* history: the committed row count when that call started
    overlap,      \* history: a clear acted while that call was in flight
    cpc,          \* position of the api_clear_stats call in flight
    seen,         \* the committed rows the DELETE of that call saw
    deleted,      \* cur.rowcount of the DELETE that call has run
    cleared,      \* history: a clear succeeded and no api_events call began since
    resp          \* the response most recently returned, none once a later call is in flight

vars == <<backend, serial, tableExists, events, pc, row, total, before, overlap,
          cpc, seen, deleted, cleared, resp>>

-----------------------------------------------------------------------------
(* Bounds of the model.                                                    *)

\* the store holds at most this many rows (api_events is not called beyond it)
MaxEvents == 2
\* time.time() * 1000 yields a value in 1..MaxTs (the wall clock may repeat)
MaxTs == 2

(* Program constants.                                                      *)

\* safe_list(data.get("interests"))[:200]
MaxInterests == 200
\* safe_list(data.get("shownCCAs"))[:50]
MaxShown == 50

-----------------------------------------------------------------------------
(* Characters and Python str.                                              *)

\* the code points of the characters the model's strings are made of
CodePoint ==
    (" " :> 32) @@ ("'" :> 39) @@ ("(" :> 40) @@ (")" :> 41) @@ ("," :> 44) @@
    ("/" :> 47) @@ ("7" :> 55) @@ ("A" :> 65) @@ ("B" :> 66) @@ ("G" :> 71) @@
    ("N" :> 78) @@ ("[" :> 91) @@ ("]" :> 93) @@ ("a" :> 97) @@ ("b" :> 98) @@
    ("e" :> 101) @@ ("g" :> 103) @@ ("h" :> 104) @@ ("i" :> 105) @@
    ("k" :> 107) @@ ("l" :> 108) @@ ("n" :> 110) @@ ("o" :> 111) @@
    ("r" :> 114) @@ ("s" :> 115) @@ ("t" :> 116) @@ ("y" :> 121) @@
    ("{" :> 123) @@ ("}" :> 125)

Chars == DOMAIN CodePoint

\* str.isspace() of one character
IsSpace(c) == CodePoint[c] = 32

\* str.lower() of one character
LowerChar(c) ==
    IF CodePoint[c] >= 65 /\ CodePoint[c] <= 90
    THEN CHOOSE d \in Chars : CodePoint[d] = CodePoint[c] + 32
    ELSE c

\* str.lower()
Lower(s) == [i \in 1..Len(s) |-> LowerChar(s[i])]

RECURSIVE LStrip(_)
\* str.lstrip()
LStrip(s) == IF s # <<>> /\ IsSpace(Head(s)) THEN LStrip(Tail(s)) ELSE s

RECURSIVE RStrip(_)
\* str.rstrip()
RStrip(s) ==
    IF s # <<>> /\ IsSpace(s[Len(s)]) THEN RStrip(SubSeq(s, 1, Len(s) - 1)) ELSE s

\* str.strip()
Strip(s) == RStrip(LStrip(s))

RECURSIVE StrLess(_, _)
\* a < b on Python str: lexicographic by code point
StrLess(a, b) ==
    IF b = <<>> THEN FALSE
    ELSE IF a = <<>> THEN TRUE
    ELSE IF CodePoint[Head(a)] # CodePoint[Head(b)]
         THEN CodePoint[Head(a)] < CodePoint[Head(b)]
         ELSE StrLess(Tail(a), Tail(b))

-----------------------------------------------------------------------------
(* Python values.                                                          *)

PyNone == [t |-> "none"]
PyStr(s) == [t |-> "str", s |-> s]
PyInt(n) == [t |-> "int", n |-> n]
PyList(l) == [t |-> "list", v |-> l]
PyDict(d) == [t |-> "dict", d |-> d]

\* bool(x)
Truthy(x) ==
    CASE x.t = "none" -> FALSE
      [] x.t = "str"  -> x.s # <<>>
      [] x.t = "int"  -> x.n # 0
      [] x.t = "list" -> x.v # <<>>
      [] x.t = "dict" -> DOMAIN x.d # {}

\* x or y
PyOr(x, y) == IF Truthy(x) THEN x ELSE y

\* repr() of a str without quotes or escapes in it
Repr(x) == IF x.t = "str" THEN <<"'">> \o x.s \o <<"'">> ELSE <<"N", "o", "n", "e">>

RECURSIVE ReprItems(_)
ReprItems(l) ==
    IF l = <<>> THEN <<>>
    ELSE IF Len(l) = 1 THEN Repr(l[1])
    ELSE Repr(l[1]) \o <<",", " ">> \o ReprItems(Tail(l))

\* str(x); an int of the model is one decimal digit
Str(x) ==
    CASE x.t = "str"  -> x.s
      [] x.t = "int"  -> <<CHOOSE c \in Chars : CodePoint[c] = 48 + x.n>>
      [] x.t = "list" -> <<"[">> \o ReprItems(x.v) \o <<"]">>
      [] x.t = "none" -> <<"N", "o", "n", "e">>
      [] x.t = "dict" -> <<"{", "}">>

-----------------------------------------------------------------------------
(* HELPERS                                                                 *)

\* norm(x): "" for None, else str(x).strip()
norm(x) == IF x.t # "none" THEN Strip(Str(x)) ELSE <<>>

\* safe_list(x): x when it is a list, else []
safe_list(x) == IF x.t = "list" THEN x.v ELSE <<>>

\* the literals of the aggregation
BLANK == <<"(", "b", "l", "a", "n", "k", ")">>
NA == <<"(", "n", "/", "a", ")">>
ANY == <<"A", "n", "y">>

\* a dict is the sequence of its items [k, c] in insertion order
DictKeys(m) == {m[i].k : i \in 1..Len(m)}
DictGet(m, k, default) ==
    IF k \in DictKeys(m)
    THEN m[CHOOSE i \in 1..Len(m) : m[i].k = k].c
    ELSE default

\* count_map_add with m[k] = inc: the count already there is dropped
count_map_add_overwrite(m, key, inc) ==
    LET k == IF Truthy(key) /\ Strip(Str(key)) # <<>> THEN key.s ELSE BLANK
    IN  IF k \in DictKeys(m)
        THEN [m EXCEPT ![CHOOSE i \in 1..Len(m) : m[i].k = k].c = inc]
        ELSE Append(m, [k |-> k, c |-> inc])

\* count_map_add(m, key, inc): m after m[k] = m.get(k, 0) + inc
count_map_add(m, key, inc) ==
    LET k == IF Truthy(key) /\ Strip(Str(key)) # <<>> THEN key.s ELSE BLANK
    IN  IF k \in DictKeys(m)
        THEN [m EXCEPT ![CHOOSE i \in 1..Len(m) : m[i].k = k].c = @ + inc]
        ELSE Append(m, [k |-> k, c |-> 0 + inc])

\* the sort key without .lower(): (-kv[1], kv[0])
KeyLess_raw(a, b) ==
    \/ a.c > b.c
    \/ a.c = b.c /\ StrLess(a.k, b.k)

\* the sort key (-kv[1], kv[0].lower()) of a before that of b
KeyLess(a, b) ==
    \/ a.c > b.c
    \/ a.c = b.c /\ StrLess(Lower(a.k), Lower(b.k))

RECURSIVE SortedInsert(_, _)
\* x put into the sorted sequence s after every item that does not follow it
SortedInsert(s, x) ==
    IF s = <<>> THEN <<x>>
    ELSE IF KeyLess(x, Head(s)) THEN <<x>> \o s
    ELSE <<Head(s)>> \o SortedInsert(Tail(s), x)

RECURSIVE StableSort(_)
\* sorted(items, key=...): stable, items of equal key keep their order
StableSort(s) ==
    IF s = <<>> THEN <<>>
    ELSE SortedInsert(StableSort(SubSeq(s, 1, Len(s) - 1)), s[Len(s)])

\* sort_dict(d)
sort_dict(d) == StableSort(d)

-----------------------------------------------------------------------------
(* json.dumps and json.loads of a flat list. A JSON text is the sequence   *)
(* of its tokens: brackets, commas and one literal per scalar.             *)

LBracket == [t |-> "punct", c |-> "["]
RBracket == [t |-> "punct", c |-> "]"]
Comma == [t |-> "punct", c |-> ","]

\* the literal json.dumps writes for a scalar
Literal(x) ==
    CASE x.t = "str"  -> [t |-> "string", s |-> x.s]
      [] x.t = "int"  -> [t |-> "number", n |-> x.n]
      [] x.t = "none" -> [t |-> "null"]

\* the value json.loads reads from a literal
Value(tok) ==
    CASE tok.t = "string" -> PyStr(tok.s)
      [] tok.t = "number" -> PyInt(tok.n)
      [] tok.t = "null"   -> PyNone

\* json.dumps(l, ensure_ascii=False) of a list of scalars
json_dumps(l) ==
    <<LBracket>>
    \o [i \in 1..(IF l = <<>> THEN 0 ELSE 2 * Len(l) - 1) |->
            IF i % 2 = 1 THEN Literal(l[(i + 1) \div 2]) ELSE Comma]
    \o <<RBracket>>

\* the text json.loads refuses
Raise == [t |-> "raise"]

\* json.loads(text): the list read, or Raise on a text that is no flat list
json_loads(text) ==
    LET n == Len(text)
        inner == SubSeq(text, 2, n - 1)
        wellFormed ==
            /\ n >= 2 /\ text[1] = LBracket /\ text[n] = RBracket
            /\ inner = <<>> \/ Len(inner) % 2 = 1
            /\ \A i \in 1..Len(inner) :
                  IF i % 2 = 1 THEN inner[i].t \in {"string", "number", "null"}
                               ELSE inner[i] = Comma
    IN  IF wellFormed
        THEN PyList([i \in 1..((Len(inner) + 1) \div 2) |-> Value(inner[2 * i - 1])])
        ELSE Raise

\* l[:n]
Slice(l, n) == SubSeq(l, 1, IF Len(l) < n THEN Len(l) ELSE n)

-----------------------------------------------------------------------------
(* Request bodies.                                                         *)

\* a body request.json() cannot parse
NotJson == [t |-> "notjson"]

sGenerate == <<"g", "e", "n", "e", "r", "a", "t", "e">>
sShortlist == <<"s", "h", "o", "r", "t", "l", "i", "s", "t">>
sArt == <<"A", "r", "t">>
sart == <<"a", "r", "t">>
sPadArt == <<" ", "A", "r", "t", " ">>
sB == <<"B">>
sb == <<"b">>
sSpace == <<" ">>
sEmpty == <<>>

\* an interests array one longer than the cap: "art", nulls, and "b" last
LongInterests ==
    [i \in 1..(MaxInterests + 1) |->
        IF i = 1 THEN PyStr(sart) ELSE IF i > MaxInterests THEN PyStr(sb) ELSE PyNone]
\* a shownCCAs array one longer than the cap: "Art", nulls, and "B" last
LongShown ==
    [i \in 1..(MaxShown + 1) |->
        IF i = 1 THEN PyStr(sArt) ELSE IF i > MaxShown THEN PyStr(sB) ELSE PyNone]

\* bodies whose eventType passes the check
ValidBodies ==
    { PyDict([eventType |-> PyStr(<<" ">> \o sGenerate \o <<" ">>),
              categorySelected |-> PyStr(sPadArt),
              activityTypeSelected |-> PyStr(sArt),
              grade |-> PyInt(7),
              gender |-> PyStr(sArt),
              interests |-> PyList(<<PyStr(sPadArt), PyStr(sart), PyNone, PyStr(sEmpty),
                                     PyStr(sSpace), PyStr(sb), PyInt(7)>>),
              shownCCAs |-> PyList(<<PyStr(sArt)>>),
              shortlistedCCA |-> PyStr(sArt)]),
      PyDict([eventType |-> PyStr(sGenerate),
              categorySelected |-> PyStr(sart),
              activityTypeSelected |-> PyStr(sSpace),
              grade |-> PyStr(sEmpty),
              gender |-> PyStr(sSpace),
              interests |-> PyStr(sart),
              shownCCAs |-> PyList(LongShown),
              shortlistedCCA |-> PyStr(sSpace)]),
      PyDict([eventType |-> PyStr(sGenerate),
              categorySelected |-> PyStr(sEmpty),
              activityTypeSelected |-> PyStr(sart),
              grade |-> PyStr(sArt),
              gender |-> PyStr(sart),
              interests |-> PyList(LongInterests),
              shownCCAs |-> PyNone]),
      PyDict([eventType |-> PyStr(sGenerate),
              interests |-> PyList(<<PyStr(sb), PyStr(sArt)>>)]),
      PyDict([eventType |-> PyStr(sShortlist)]),
      PyDict([eventType |-> PyStr(sShortlist),
              shortlistedCCA |-> PyStr(sPadArt),
              categorySelected |-> PyStr(sArt),
              gender |-> PyStr(sart),
              interests |-> PyList(<<PyStr(sart)>>)]),
      PyDict([eventType |-> PyStr(sShortlist), shortlistedCCA |-> PyStr(sart)]),
      PyDict([eventType |-> PyStr(sShortlist), shortlistedCCA |-> PyStr(sB)]) }

\* bodies whose eventType fails the check
InvalidBodies ==
    { NotJson,
      PyList(<<PyStr(sGenerate)>>),
      PyStr(sGenerate),
      PyDict([k \in {} |-> PyNone]),
      PyDict([eventType |-> PyNone, categorySelected |-> PyStr(sArt)]),
      PyDict([eventType |-> PyStr(sEmpty)]),
      PyDict([eventType |-> PyStr(sSpace)]),
      PyDict([eventType |-> PyStr(<<"G">> \o Tail(sGenerate))]),
      PyDict([eventType |-> PyStr(sGenerate \o sSpace \o sShortlist)]),
      PyDict([eventType |-> PyList(<<PyStr(sGenerate)>>)]),
      PyDict([eventType |-> PyInt(7), shortlistedCCA |-> PyStr(sArt)]) }

\* the bodies clients send while requests overlap
OverlapBodies ==
    { PyDict([eventType |-> PyStr(sGenerate)]),
      PyDict([eventType |-> PyStr(sShortlist), shortlistedCCA |-> PyStr(sart)]),
      PyDict([eventType |-> PyStr(sEmpty)]) }

Bodies == IF serial THEN ValidBodies \cup InvalidBodies ELSE OverlapBodies

-----------------------------------------------------------------------------
(* DB LAYER (Postgres or SQLite)                                           *)

\* init_db(): CREATE TABLE IF NOT EXISTS leaves an existing table as it is
init_db == tableExists' = TRUE

\* SELECT ... FROM events ORDER BY ts DESC over the rows of table: what it
\* may return, rows of equal ts in any order
SelectOrdered(table) ==
    LET n == BagCardinality(table)
        S == BagToSet(table)
    IN  { s \in [1..n -> S] :
            /\ \A e \in S : Cardinality({i \in 1..n : s[i] = e}) = CopiesIn(e, table)
            /\ \A i, j \in 1..n : i < j => s[i].ts >= s[j].ts }

\* what fetch_all_events() may return
fetch_all_events == SelectOrdered(events)

\* the table after INSERT of row r
Inserted(r) == events (+) SetToBag({r})

-----------------------------------------------------------------------------
(* POST /api/events                                                        *)

\* data after the safe JSON parse: the body when it is an object, else {}
ParsedBody(body) == IF body.t = "dict" THEN body.d ELSE [k \in {} |-> PyNone]

\* data.get(key)
Get(data, key) == IF key \in DOMAIN data THEN data[key] ELSE PyNone

\* the check made on event_type.lower()
EventTypeValid_anycase(event_type) == Lower(event_type) \in {sGenerate, sShortlist}

\* event_type in ("generate", "shortlist")
EventTypeValid(event_type) == event_type \in {sGenerate, sShortlist}

\* norm(x) or None
NormOrNone(x) == PyOr(PyStr(norm(x)), PyNone)

\* None if x is None else norm(x)
NormUnlessNone(x) == IF x.t = "none" THEN PyNone ELSE PyStr(norm(x))

\* safe_list(x) with no slice
InterestsKept_all(x) == safe_list(x)

\* safe_list(x)[:200] and safe_list(x)[:50]
InterestsKept(x) == Slice(safe_list(x), MaxInterests)
ShownKept(x) == Slice(safe_list(x), MaxShown)

\* the row api_events builds from data at time ts
BuildRow(data, ts) ==
    [ ts |-> ts,
      event_type |-> norm(Get(data, "eventType")),
      category_selected |-> NormOrNone(Get(data, "categorySelected")),
      activity_type_selected |-> NormUnlessNone(Get(data, "activityTypeSelected")),
      grade |-> NormUnlessNone(Get(data, "grade")),
      gender |-> NormOrNone(Get(data, "gender")),
      interests_json |-> json_dumps(InterestsKept(Get(data, "interests"))),
      shown_ccas_json |-> json_dumps(ShownKept(Get(data, "shownCCAs"))),
      shortlisted_cca |-> NormOrNone(Get(data, "shortlistedCCA")) ]

NoRow == [ts |-> 0]
NoResp == [op |-> "none", status |-> 0]

\* the responses of api_events
Rejected == [op |-> "events", status |-> 400, ok |-> FALSE]
Accepted(n) ==
    [op |-> "events", status |-> 200, ok |-> TRUE, totalEventsNow |-> n, storage |-> backend]
\* an exception that leaves a handler: FastAPI answers 500
ServerError(op) == [op |-> op, status |-> 500]

\* a request may start: one at a time when serial
MayStart == serial => (pc = "idle" /\ cpc = "idle")

\* an api_events call starts; its locals and history are those of a new call
BeginEvents ==
    /\ pc = "idle" /\ MayStart
    /\ init_db
    /\ before' = BagCardinality(events) /\ overlap' = FALSE /\ cleared' = FALSE

\* the call returns r: its locals are gone
Return(r) ==
    /\ resp' = r
    /\ pc' = "idle" /\ row' = NoRow /\ total' = 0

\* api_events, eventType refused: 400 before any row is built
api_events_reject(body) ==
    /\ BeginEvents
    /\ ~EventTypeValid(norm(Get(ParsedBody(body), "eventType")))
    /\ Return(Rejected)
    /\ UNCHANGED <<backend, serial, events, cpc, seen, deleted>>

\* api_events on SQLite up to conn.commit(): INSERT and commit, or an error
\* of either that leaves the table as it was
insert_event_sqlite_insert(body, ts, fault) ==
    /\ backend = "sqlite"
    /\ BagCardinality(events) < MaxEvents
    /\ BeginEvents
    /\ EventTypeValid(norm(Get(ParsedBody(body), "eventType")))
    /\ IF fault
       THEN Return(ServerError("events")) /\ UNCHANGED events
       ELSE /\ events' = Inserted(BuildRow(ParsedBody(body), ts))
            /\ pc' = "committed" /\ resp' = NoResp
            /\ UNCHANGED <<row, total>>
    /\ UNCHANGED <<backend, serial, cpc, seen, deleted>>

\* api_events on SQLite after the commit: SELECT COUNT(*), close, return
insert_event_sqlite_count(fault) ==
    /\ backend = "sqlite" /\ pc = "committed"
    /\ IF fault
       THEN Return(ServerError("events"))
       ELSE Return(Accepted(BagCardinality(events)))
    /\ UNCHANGED <<backend, serial, tableExists, events, before, overlap, cpc, seen,
                   deleted, cleared>>

\* api_events on Postgres up to the INSERT, inside the connection's transaction
insert_event_pg_insert(body, ts, fault) ==
    /\ backend = "postgres"
    /\ BagCardinality(events) < MaxEvents
    /\ BeginEvents
    /\ EventTypeValid(norm(Get(ParsedBody(body), "eventType")))
    /\ IF fault
       THEN Return(ServerError("events"))
       ELSE /\ row' = BuildRow(ParsedBody(body), ts)
            /\ pc' = "inserted" /\ resp' = NoResp
            /\ UNCHANGED total
    /\ UNCHANGED <<backend, serial, events, cpc, seen, deleted>>

\* SELECT COUNT(*) inside the inserting transaction: the committed rows and
\* the row it has inserted
CountInTransaction == BagCardinality(events) + 1

\* api_events on Postgres, the count query of insert_event
insert_event_pg_count(fault) ==
    /\ backend = "postgres" /\ pc = "inserted"
    /\ IF fault
       THEN Return(ServerError("events"))
       ELSE /\ total' = CountInTransaction
            /\ pc' = "counted"
            /\ UNCHANGED <<row, resp>>
    /\ UNCHANGED <<backend, serial, tableExists, events, before, overlap, cpc, seen,
                   deleted, cleared>>

\* conn.commit() and return; an error rolls the transaction back
insert_event_pg_commit(fault) ==
    /\ backend = "postgres" /\ pc = "counted"
    /\ IF fault
       THEN Return(ServerError("events")) /\ UNCHANGED events
       ELSE Return(Accepted(total)) /\ events' = Inserted(row)
    /\ UNCHANGED <<backend, serial, tableExists, before, overlap, cpc, seen, deleted, cleared>>

-----------------------------------------------------------------------------
(* DELETE /api/stats                                                       *)

\* the response of api_clear_stats
Cleared(n) ==
    [op |-> "clear", status |-> 200, ok |-> TRUE, deleted |-> n, storage |-> backend]

\* a DELETE with WHERE event_type = 'generate'
DeleteMatches_generate(r) == r.event_type = sGenerate

\* DELETE FROM events has no WHERE clause: it deletes every row it sees
DeleteMatches(r) == TRUE

\* the rows a DELETE leaves of the rows it sees, and its cur.rowcount
RowsLeft(rows) == [r \in {x \in BagToSet(rows) : ~DeleteMatches(x)} |-> rows[r]]
RowCount(rows) == BagCardinality(rows) - BagCardinality(RowsLeft(rows))

\* api_clear_stats on SQLite: DELETE, rowcount, commit
clear_all_events_sqlite(fault) ==
    /\ backend = "sqlite"
    /\ cpc = "idle" /\ MayStart
    /\ init_db
    /\ IF fault
       THEN resp' = ServerError("clear") /\ UNCHANGED <<events, cleared, overlap>>
       ELSE /\ events' = RowsLeft(events)
            /\ resp' = Cleared(RowCount(events))
            /\ cleared' = (pc = "idle")
            /\ overlap' = (overlap \/ pc # "idle")
    /\ UNCHANGED <<backend, serial, pc, row, total, before, cpc, seen, deleted>>

\* api_clear_stats on Postgres up to the DELETE ... RETURNING, in a transaction
clear_all_events_pg_delete(fault) ==
    /\ backend = "postgres"
    /\ cpc = "idle" /\ MayStart
    /\ init_db
    /\ IF fault
       THEN resp' = ServerError("clear") /\ UNCHANGED <<cpc, seen, deleted>>
       ELSE /\ seen' = events
            /\ deleted' = RowCount(events)
            /\ cpc' = "deleted" /\ resp' = NoResp
    /\ UNCHANGED <<backend, serial, events, pc, row, total, before, overlap, cleared>>

\* conn.commit() and return: the rows the DELETE saw go, rows committed since stay
clear_all_events_pg_commit(fault) ==
    /\ backend = "postgres" /\ cpc = "deleted"
    /\ IF fault
       THEN resp' = ServerError("clear") /\ UNCHANGED <<events, cleared, overlap>>
       ELSE /\ events' = RowsLeft(seen) (+) (events (-) seen)
            /\ resp' = Cleared(deleted)
            /\ cleared' = (pc = "idle" /\ events = seen)
            /\ overlap' = (overlap \/ pc # "idle")
    /\ cpc' = "idle" /\ seen' = EmptyBag /\ deleted' = 0
    /\ UNCHANGED <<backend, serial, tableExists, pc, row, total, before>>

-----------------------------------------------------------------------------
(* GET /api/stats                                                          *)

RECURSIVE CountInterests(_, _, _, _)
\* for t in ints[lo..hi]: tok = norm(t).lower(); if tok: count_map_add(interests, tok)
\* (the elements in order: the first half of the range, then the second)
CountInterests(m, ints, lo, hi) ==
    IF lo > hi THEN m
    ELSE IF lo = hi
    THEN LET tok == Lower(norm(ints[lo]))
         IN  IF tok # <<>> THEN count_map_add(m, PyStr(tok), 1) ELSE m
    ELSE LET mid == (lo + hi) \div 2
             half == CountInterests(m, ints, lo, mid)
         \* (Len(half) first: the first half is evaluated before the second)
         IN  IF Len(half) >= 0 THEN CountInterests(half, ints, mid + 1, hi) ELSE half

\* ints of a row: json.loads(interests_json or "[]"), [] when it raises
RowInterests(r) ==
    LET text == IF r.interests_json = <<>> THEN json_dumps(<<>>) ELSE r.interests_json
        ints == json_loads(text)
    IN  IF ints = Raise THEN <<>> ELSE ints.v

\* the counters before the loop over rows
NoCounts ==
    [ generate_events |-> 0, shortlist_events |-> 0,
      categories |-> <<>>, activity_types |-> <<>>, grades |-> <<>>,
      genders |-> <<>>, interests |-> <<>>, shortlisted |-> <<>> ]

\* the loop body with "if" for "elif" and no test of the event type before
\* the shortlisted count
CountRow_anyshortlisted(a, r) ==
    LET ints == RowInterests(r)
        b == IF r.event_type = sGenerate
             THEN [a EXCEPT
                     !.generate_events = @ + 1,
                     !.categories = count_map_add(@, r.category_selected, 1),
                     !.activity_types =
                         count_map_add(@, PyOr(r.activity_type_selected, PyStr(NA)), 1),
                     !.grades = count_map_add(@, r.grade, 1),
                     !.genders = count_map_add(@, PyOr(r.gender, PyStr(ANY)), 1),
                     !.interests = CountInterests(@, ints, 1, Len(ints))]
             ELSE [a EXCEPT !.shortlist_events = @ + 1]
    IN  [b EXCEPT !.shortlisted = IF Truthy(r.shortlisted_cca)
                                  THEN count_map_add(@, r.shortlisted_cca, 1) ELSE @]

\* one pass of the loop body of api_stats over row r
CountRow(a, r) ==
    IF r.event_type = sGenerate
    THEN LET ints == RowInterests(r) IN
         [a EXCEPT
            !.generate_events = @ + 1,
            !.categories = count_map_add(@, r.category_selected, 1),
            !.activity_types = count_map_add(@, PyOr(r.activity_type_selected, PyStr(NA)), 1),
            !.grades = count_map_add(@, r.grade, 1),
            !.genders = count_map_add(@, PyOr(r.gender, PyStr(ANY)), 1),
            !.interests = CountInterests(@, ints, 1, Len(ints))]
    ELSE IF r.event_type = sShortlist
    THEN [a EXCEPT
            !.shortlist_events = @ + 1,
            !.shortlisted = IF Truthy(r.shortlisted_cca)
                            THEN count_map_add(@, r.shortlisted_cca, 1) ELSE @]
    ELSE a

RECURSIVE CountRows(_, _)
\* for r in rows: ...
CountRows(a, rows) ==
    IF rows = <<>> THEN a ELSE CountRows(CountRow(a, Head(rows)), Tail(rows))

\* the response of api_stats over the rows fetched
StatsBody(rows) ==
    LET a == CountRows(NoCounts, rows)
    IN  [ op |-> "stats", status |-> 200,
          storage |-> backend,
          totalEvents |-> Len(rows),
          generateEvents |-> a.generate_events,
          shortlistEvents |-> a.shortlist_events,
          categories |-> sort_dict(a.categories),
          activityTypes |-> sort_dict(a.activity_types),
          grades |-> sort_dict(a.grades),
          genders |-> sort_dict(a.genders),
          interests |-> sort_dict(a.interests),
          shortlisted |-> sort_dict(a.shortlisted) ]

\* api_stats: the rows as the store returns them, counted and sorted
api_stats ==
    /\ MayStart
    /\ init_db
    /\ \E rows \in fetch_all_events : resp' = StatsBody(rows)
    /\ UNCHANGED <<backend, serial, events, pc, row, total, before, overlap, cpc, seen,
                   deleted, cleared>>

-----------------------------------------------------------------------------
(* The system.                                                             *)

Start ==
    /\ backend \in {"postgres", "sqlite"}
    /\ tableExists = FALSE
    /\ events = EmptyBag
    /\ pc = "idle" /\ row = NoRow /\ total = 0 /\ before = 0 /\ overlap = FALSE
    /\ cpc = "idle" /\ seen = EmptyBag /\ deleted = 0
    /\ cleared = FALSE
    /\ resp = NoResp

Init == Start /\ serial = TRUE
InitOverlap == Start /\ serial = FALSE

Next ==
    \/ \E body \in Bodies : api_events_reject(body)
    \/ \E body \in Bodies, ts \in 1..MaxTs, fault \in BOOLEAN :
          insert_event_sqlite_insert(body, ts, fault)
    \/ \E fault \in BOOLEAN : insert_event_sqlite_count(fault)
    \/ \E body \in Bodies, ts \in 1..MaxTs, fault \in BOOLEAN :
          insert_event_pg_insert(body, ts, fault)
    \/ \E fault \in BOOLEAN : insert_event_pg_count(fault)
    \/ \E fault \in BOOLEAN : insert_event_pg_commit(fault)
    \/ \E fault \in BOOLEAN : clear_all_events_sqlite(fault)
    \/ \E fault \in BOOLEAN : clear_all_events_pg_delete(fault)
    \/ \E fault \in BOOLEAN : clear_all_events_pg_commit(fault)
    \/ api_stats

\* requests served one at a time
Spec == Init /\ [][Next]_vars
\* an api_events call overlapping api_clear_stats and api_stats calls
SpecOverlap == InitOverlap /\ [][Next]_vars

-----------------------------------------------------------------------------
(* What the claims speak of.                                               *)

StoredRows == BagToSet(events)
ScalarFields ==
    {"category_selected", "activity_type_selected", "grade", "gender", "shortlisted_cca"}
Dists == {"categories", "activityTypes", "grades", "genders", "interests", "shortlisted"}

\* a submitted field: the value under key of an object body, null otherwise
Field(b, key) == IF b.t = "dict" /\ key \in DOMAIN b.d THEN b.d[key] ELSE PyNone

\* the body's eventType converted to a string and stripped is "generate" or "shortlist"
KindGiven(b) ==
    /\ Field(b, "eventType").t # "none"
    /\ Strip(Str(Field(b, "eventType"))) \in {sGenerate, sShortlist}

\* the step is the start of an api_events call with body b
EventsCall(b) ==
    \/ api_events_reject(b)
    \/ \E ts \in 1..MaxTs, fault \in BOOLEAN :
          \/ insert_event_sqlite_insert(b, ts, fault)
          \/ insert_event_pg_insert(b, ts, fault)

\* the step commits exactly the row r and touches no other row
Adds(r) == events' = events (+) SetToBag({r})

\* a stored scalar that is null or blank
Blank(v) == v.t = "none" \/ Strip(v.s) = <<>>

\* the lists a row stores
StoredInterests(r) == json_loads(r.interests_json).v
StoredShown(r) == json_loads(r.shown_ccas_json).v

RECURSIVE SumCounts(_)
SumCounts(d) == IF d = <<>> THEN 0 ELSE Head(d).c + SumCounts(Tail(d))

-----------------------------------------------------------------------------
(* C1 *)

C1_Kinds == \A r \in StoredRows : r.event_type \in {sGenerate, sShortlist}

C1_Step ==
    \/ resp' = Rejected /\ events' = events
    \/ \A b \in Bodies : ~KindGiven(b) => ~EventsCall(b)

-----------------------------------------------------------------------------
(* C2 *)

NoStats(r) ==
    /\ r.totalEvents = 0 /\ r.generateEvents = 0 /\ r.shortlistEvents = 0
    /\ \A name \in Dists : r[name] = <<>>

C2_Step ==
    /\ (clear_all_events_sqlite(FALSE) \/ clear_all_events_pg_commit(FALSE))
          => /\ events' = EmptyBag
             /\ resp'.status = 200 /\ resp'.ok
             /\ resp'.deleted = BagCardinality(events)
    /\ (cleared /\ api_stats) => NoStats(resp')

\* C2: a successful clear removes every stored event, whatever its kind, and
\* returns as deleted the number of events stored before it; a stats call
\* made after it with no api_events call in between returns totalEvents,
\* generateEvents and shortlistEvents 0 and six empty distributions.
C2_ClearRemovesAll == [][C2_Step]_vars

\* a clear has removed two or more stored events
C2_Witness ==
    resp.op = "clear" /\ resp.status = 200 /\ resp.deleted >= 2 /\ cleared

-----------------------------------------------------------------------------
(* C3 *)

SortedLaw(d) ==
    \A i \in 1..(Len(d) - 1) :
        \/ d[i].c > d[i + 1].c
        \/ d[i].c = d[i + 1].c /\ ~StrLess(Lower(d[i + 1].k), Lower(d[i].k))

UniqueKeys(d) == \A i, j \in 1..Len(d) : d[i].k = d[j].k => i = j

\* C3: in each of the six distributions of a stats response every adjacent
\* pair (a, b) has count(a) > count(b), or equal counts and
\* lower(key(a)) <= lower(key(b)); each key appears once.
C3_SortedDistributions ==
    resp.op = "stats" => \A name \in Dists : SortedLaw(resp[name]) /\ UniqueKeys(resp[name])

\* a distribution with a strict descent of counts and a tie
C3_Witness ==
    /\ resp.op = "stats"
    /\ \E name \in Dists :
          /\ Len(resp[name]) >= 3
          /\ resp[name][1].c > resp[name][2].c
          /\ resp[name][2].c = resp[name][3].c

-----------------------------------------------------------------------------
(* C4 *)

Occ(keys, k) == Cardinality({i \in 1..Len(keys) : keys[i] = k})
KeyOr(v, default) == IF Blank(v) THEN default ELSE v.s

\* the interest keys as the claim has them: each non-empty interest, lower-cased
LoweredInterests(r) ==
    LET l == StoredInterests(r)
    IN  SelectSeq([i \in 1..Len(l) |-> IF l[i].t = "none" THEN <<>> ELSE Lower(Str(l[i]))],
                  LAMBDA k : k # <<>>)

\* the interest keys with the strip of norm: each interest that is non-empty
\* once stripped, stripped and lower-cased
StrippedLoweredInterests(r) ==
    LET l == StoredInterests(r)
    IN  SelectSeq([i \in 1..Len(l) |->
                      IF l[i].t = "none" THEN <<>> ELSE Lower(Strip(Str(l[i])))],
                  LAMBDA k : k # <<>>)

\* the keys row r is to add one to in distribution name
ImpliedKeys(r, name, interestKeys) ==
    IF r.event_type = sGenerate
    THEN CASE name = "categories"    -> <<KeyOr(r.category_selected, BLANK)>>
           [] name = "activityTypes" -> <<KeyOr(r.activity_type_selected, NA)>>
           [] name = "grades"        -> <<KeyOr(r.grade, BLANK)>>
           [] name = "genders"       -> <<KeyOr(r.gender, ANY)>>
           [] name = "interests"     -> interestKeys
           [] name = "shortlisted"   -> <<>>
    ELSE IF name = "shortlisted" /\ ~Blank(r.shortlisted_cca)
         THEN <<r.shortlisted_cca.s>>
         ELSE <<>>

\* stats s2 are stats s1 with the counters of row r added and nothing else
StatsDelta(r, s1, s2, interestKeys) ==
    /\ s2.totalEvents = s1.totalEvents + 1
    /\ s2.generateEvents = s1.generateEvents + (IF r.event_type = sGenerate THEN 1 ELSE 0)
    /\ s2.shortlistEvents = s1.shortlistEvents + (IF r.event_type = sShortlist THEN 1 ELSE 0)
    /\ \A name \in Dists :
          LET keys == ImpliedKeys(r, name, interestKeys)
          IN  \A k \in DictKeys(s1[name]) \cup DictKeys(s2[name])
                         \cup {keys[i] : i \in 1..Len(keys)} :
                  DictGet(s2[name], k, 0) = DictGet(s1[name], k, 0) + Occ(keys, k)

C4_Step(InterestKeys(_)) ==
    BagCardinality(events') = BagCardinality(events) + 1 =>
        \A r \in BagToSet(events') :
            Adds(r) =>
                LET keys == InterestKeys(r)
                IN  \A o1 \in SelectOrdered(events) :
                        LET s1 == StatsBody(o1)
                        IN  \A o2 \in SelectOrdered(events') :
                                LET s2 == StatsBody(o2)
                                IN  StatsDelta(r, s1, s2, keys)

\* C4 as claimed: an accepted event changes the stats by exactly the counters
\* of its kind and fields; a generate event adds one to the lower-cased key of
\* each non-empty interest.
C4_Original == [][C4_Step(LoweredInterests)]_vars

\* C4 as amended: the same, the interest keys being those of norm(t).lower():
\* each interest whose string form is non-empty once stripped adds one to its
\* stripped, lower-cased form.
C4_ExactCounters == [][C4_Step(StrippedLoweredInterests)]_vars

\* stored: a generate event with a padded interest and a shortlistedCCA, and
\* a shortlist event with an item and a category
C4_Witness ==
    /\ \E r \in StoredRows :
          /\ r.event_type = sGenerate /\ ~Blank(r.shortlisted_cca)
          /\ \E i \in 1..Len(StoredInterests(r)) : StoredInterests(r)[i] = PyStr(sPadArt)
    /\ \E r \in StoredRows :
          /\ r.event_type = sShortlist /\ ~Blank(r.shortlisted_cca)
          /\ ~Blank(r.category_selected)

-----------------------------------------------------------------------------
(* C5 *)

\* C5: each of the five optional scalar fields of every stored event is null
\* or a non-empty string without leading or trailing whitespace.
C5_Original ==
    \A r \in StoredRows : \A f \in ScalarFields :
        \/ r[f] = PyNone
        \/ r[f].t = "str" /\ r[f].s # <<>> /\ Strip(r[f].s) = r[f].s

-----------------------------------------------------------------------------
(* C6 *)

\* the first n elements of a submitted array, nothing for any other value
FirstOf(x, n) ==
    IF x.t = "list" THEN [i \in 1..(IF Len(x.v) < n THEN Len(x.v) ELSE n) |-> x.v[i]]
    ELSE <<>>

PrefixStored(r, b) ==
    /\ json_loads(r.interests_json) = PyList(FirstOf(Field(b, "interests"), MaxInterests))
    /\ json_loads(r.shown_ccas_json) = PyList(FirstOf(Field(b, "shownCCAs"), MaxShown))

C6_Caps ==
    \A r \in StoredRows :
        Len(StoredInterests(r)) <= MaxInterests /\ Len(StoredShown(r)) <= MaxShown

C6_Step ==
    /\ resp' = Rejected => \A b \in Bodies : KindGiven(b) => ~api_events_reject(b)
    /\ \A r \in BagToSet(events') :
          (pc = "idle" /\ Adds(r)) =>
              \A b \in Bodies :
                  (KindGiven(b) /\ insert_event_sqlite_insert(b, r.ts, FALSE))
                      => PrefixStored(r, b)
    /\ (pc = "idle" /\ row' # NoRow) =>
          \A b \in Bodies :
              (KindGiven(b) /\ insert_event_pg_insert(b, row'.ts, FALSE))
                  => PrefixStored(row', b)
    /\ insert_event_pg_commit(FALSE) => Adds(row)

\* C6: every stored event has at most 200 interests and at most 50 shown
\* items, each the order-preserving prefix of the submitted array and empty
\* when the submitted value is absent or no array; no payload is rejected
\* because of these fields.
C6_ListsTruncated == []C6_Caps /\ [][C6_Step]_vars

\* stored: interests cut to 200 and shown items cut to 50
C6_Witness ==
    /\ \E r \in StoredRows : Len(StoredInterests(r)) = MaxInterests
    /\ \E r \in StoredRows : Len(StoredShown(r)) = MaxShown

-----------------------------------------------------------------------------
(* C7 *)

\* C7: the whole stats response, the order inside each distribution
\* included, is the same for every order in which the store may return the
\* rows.
C7_Original == resp.op = "stats" => \A o \in fetch_all_events : resp = StatsBody(o)

-----------------------------------------------------------------------------
(* C8 *)

\* the step returns from an api_events call
EventsReturn == resp'.op = "events" /\ pc' = "idle" /\ (pc # "idle" \/ resp' # resp)

\* the committed row count when the call that takes the step started
CountAtStart == IF pc = "idle" THEN BagCardinality(events) ELSE before

\* C8: an api_events call that returns accepted has added one event; a call
\* that ends in any error, a store failure at the row count included, has
\* left the store as it was before the call.
C8_Original ==
    [][EventsReturn =>
          IF resp'.status = 200
          THEN BagCardinality(events') = CountAtStart + 1
          ELSE BagCardinality(events') = CountAtStart]_vars

-----------------------------------------------------------------------------
(* C9 *)

AcceptedNow == resp.op = "events" /\ resp.status = 200

\* C9: in every interleaving, on both backends, totalEventsNow of
\* an accepted call is at least 1, and with no other operation during the
\* call it is the row count before the call plus 1.
C9_Original ==
    AcceptedNow =>
        /\ resp.totalEventsNow >= 1
        /\ ~overlap => resp.totalEventsNow = before + 1

-----------------------------------------------------------------------------
(* C10 *)

\* the stored shortlist events with a non-blank item
ShortlistsWithItem ==
    BagCardinality([r \in {x \in StoredRows :
                              x.event_type = sShortlist /\ ~Blank(x.shortlisted_cca)}
                       |-> events[r]])

\* C10: in a stats response totalEvents = generateEvents + shortlistEvents;
\* the counts of categories, activityTypes, grades and genders each sum to
\* generateEvents; the counts of shortlisted sum to the number of shortlist
\* events with a non-blank item, at most shortlistEvents; every count is at
\* least 1.
C10_Totals ==
    resp.op = "stats" =>
        /\ resp.totalEvents = resp.generateEvents + resp.shortlistEvents
        /\ \A name \in {"categories", "activityTypes", "grades", "genders"} :
              SumCounts(resp[name]) = resp.generateEvents
        /\ SumCounts(resp.shortlisted) <= resp.shortlistEvents
        /\ SumCounts(resp.shortlisted) = ShortlistsWithItem
        /\ \A name \in Dists : \A i \in 1..Len(resp[name]) : resp[name][i].c >= 1

\* stats over a generate event and a shortlist event without item
C10_Witness ==
    /\ resp.op = "stats"
    /\ resp.generateEvents >= 1 /\ resp.shortlistEvents >= 1
    /\ SumCounts(resp.shortlisted) < resp.shortlistEvents

====
